---- MODULE Spec2Model ----
(***************************************************************************)
(* Model of the two MCP servers of the repository:                         *)
(*   psh-mcp/psh_mcp/server.py        (service-health tools and the audit) *)
(*   inventory-mcp/inventory_mcp/server.py   (search_assets)               *)
(*                                                                         *)
(* Three specifications share the module:                                  *)
(*   Spec      one tool invocation at a time, step by step between awaits  *)
(*   SpecConc  two concurrent requests through AuthMiddleware              *)
(*   SpecNorm  _format_event_details applied to bounded raw events, and    *)
(*             applied again to its own output                             *)
(*                                                                         *)
(* Python values: None is the string NoneVal; a dict is a function whose   *)
(* DOMAIN is the set of keys present; a list is a sequence.                *)
(***************************************************************************)
EXTENDS Integers, Sequences, FiniteSets, TLC

VARIABLES
    \* ---- Spec: one tool invocation
    tool,               \* which tool is running, "none" before a call
    pc,                 \* position of the coroutine between awaits
    explicit,           \* the token argument of the call
    ambient,            \* request_auth_token in the invocation's context
    creds,              \* token of the Credentials object, NoneVal when none was created
    error,              \* message of the raised exception, NoError when none
    netLog,             \* requests sent to the query service, in order
    scope,              \* audit argument
    max_projects,       \* audit argument
    page_size,          \* search_assets argument
    page_token,         \* search_assets argument (0 is None)
    project_id,         \* list_active_events argument
    projects_to_check,  \* audit local
    enabled_projects,   \* audit local
    results,            \* search_assets local
    result,             \* the returned value
    candServed,         \* history: candidate records the service served
    candMore,           \* history: the last candidate page carried a token
    markServed,         \* history: projects referenced by served marker records
    markMore,           \* history: the last marker page carried a token
    lastPage,           \* history: the last page handed to search_assets
    \* ---- SpecConc: two concurrent requests
    cpc,                \* per request: "new", "arrived", "dispatched", "done"
    header,             \* per request: the Authorization header
    cexplicit,          \* per request: the token argument of the tool
    ctx,                \* per request task: request_auth_token in the task's context
    resolved,           \* per request: what get_token returned
    \* ---- SpecNorm: the event normaliser
    npc,                \* "raw", "formatted", "reformatted"
    raw,                \* the event handed to _format_event_details
    out1,               \* first result
    err1,               \* exception of the first call
    out2,               \* result of formatting out1 again
    err2                \* exception of the second call

toolVars ==
    <<tool, pc, explicit, ambient, creds, error, netLog, scope, max_projects,
      page_size, page_token, project_id, projects_to_check, enabled_projects,
      results, result, candServed, candMore, markServed, markMore, lastPage>>

concVars ==
    <<cpc, header, cexplicit, ctx, resolved>>

normVars ==
    <<npc, raw, out1, err1, out2, err2>>

vars ==
    <<toolVars, concVars, normVars>>

\* ------------------------------------------------------------------ bounds

\* Longest page the modelled query service returns.
MaxPageLen ==
    2

\* Most continuation tokens one modelled stream hands out.
MaxTokens ==
    2

\* Longest "updates" list of a raw event.
MaxUpdates ==
    2

\* Longest project_id, in characters.
MaxIdLen ==
    2

\* ------------------------------------------------------- program constants

\* if "organizations" in scope and max_projects > 100
OrgSafetyCap ==
    100

\* page_size=1000 of the marker request
MarkerPageSize ==
    1000

\* page_size: int = 50 of search_assets
DefaultPageSize ==
    50

\* max_projects: int = 50 of the audit
DefaultMaxProjects ==
    50

\* if len(events) >= 10: break
EventLimit ==
    10

\* ------------------------------------------------------------ Python values

NoneVal ==
    "<None>"

NoError ==
    "<no error>"

AuthRequired ==
    "Authentication required: No Bearer token provided in header or arguments."

InvalidProject ==
    "Invalid project_id. Must be lowercase alphanumeric."

SafetyGuard ==
    "Safety Guard: max_projects limited to 100 for Organization scopes."

TypeErr ==
    "TypeError: '<' not supported"

\* Any exception the client raises out of an awaited call or a page fetch.
ServiceError ==
    "GoogleAPICallError raised by the client"

\* Python truthiness of an optional string.
Truthy(s) ==
    s /= NoneVal /\ s /= ""

\* d.get(k, default) on a dict.
Get(d, k, default) ==
    IF k \in DOMAIN d THEN d[k] ELSE default

EmptyDict ==
    [k \in {} |-> NoneVal]

Min(a, b) ==
    IF a < b THEN a ELSE b

\* All sequences over S of length at most n.
SeqsUpTo(S, n) ==
    UNION {[1..k -> S] : k \in 0..n}

\* ------------------------------------------------------------ auth helpers

\* An Authorization header is the list header.split(" ") would give; the
\* empty list stands for a request without the header (headers.get gives
\* None). <<"Bearer", "">> is "Bearer " and <<"Bearer">> is "Bearer".
Headers ==
    {<<>>, <<"Bearer", "A">>, <<"Bearer", "B">>, <<"Bearer", "">>,
     <<"Basic", "A">>, <<"Bearer">>}

\* auth_header.startswith("Bearer "): the first word is Bearer and a space
\* follows it.
StartsWithBearer(h) ==
    Len(h) >= 2 /\ h[1] = "Bearer"

\* AuthMiddleware.dispatch: the value request_auth_token is set to,
\* auth_header.split(" ")[1] or None.
DispatchToken(h) ==
    IF h /= <<>> /\ StartsWithBearer(h) THEN h[2] ELSE NoneVal

\* get_token with the precedence reversed: the ambient token first.
get_token_ambient_first(explicit_token, ctx_token) ==
    IF Truthy(ctx_token) THEN [ok |-> TRUE, token |-> ctx_token]
    ELSE IF Truthy(explicit_token) THEN [ok |-> TRUE, token |-> explicit_token]
    ELSE [ok |-> FALSE, token |-> NoneVal]

\* get_token: ok = FALSE stands for the raised ValueError(AuthRequired).
get_token(explicit_token, ctx_token) ==
    IF Truthy(explicit_token) THEN [ok |-> TRUE, token |-> explicit_token]
    ELSE IF Truthy(ctx_token) THEN [ok |-> TRUE, token |-> ctx_token]
    ELSE [ok |-> FALSE, token |-> NoneVal]

\* create_creds: the token of the Credentials object, or the error.
create_creds(token, ctx_token) ==
    LET t == get_token(token, ctx_token)
    IN  IF t.ok THEN [error |-> NoError, creds |-> t.token]
        ELSE [error |-> AuthRequired, creds |-> NoneVal]

ExplicitTokens ==
    {NoneVal, "", "A"}

\* ------------------------------------------------- the event normaliser

Absent ==
    "<absent>"

T10 ==
    "2024-01-01T10:00Z"

T12 ==
    "2024-01-01T12:00Z"

\* Position of a time string in Python's (lexicographic) string order.
TimeRank(s) ==
    CASE s = "" -> 0
      [] s = T10 -> 1
      [] s = T12 -> 2

\* a < b on two sort keys that are both strings.
StrLess(a, b) ==
    TimeRank(a) < TimeRank(b)

\* One element of data["updates"]: a dict holding the keys that are set.
UpdateDict(time, workaround) ==
    [k \in ({"updateTime" : x \in {time} \ {Absent}}
             \cup {"workaround" : x \in {workaround} \ {Absent}}) |->
        IF k = "updateTime" THEN time ELSE workaround]

RawUpdates ==
    {UpdateDict(t, w) : t \in {Absent, T10, T12}, w \in {Absent, "w1", "w2"}}

RawProducts ==
    <<[productName |-> "Cloud SQL"], EmptyDict>>

\* A raw event as a plain mapping; hasUpdates and hasProducts say whether the
\* "updates" and "impactedProducts" keys are present.
EventDict(name, title, hasUpdates, updates, hasProducts) ==
    [k \in ({"name" : x \in {name} \ {Absent}}
             \cup {"title" : x \in {title} \ {Absent}}
             \cup {"updates" : x \in {hasUpdates} \ {FALSE}}
             \cup {"impactedProducts" : x \in {hasProducts} \ {FALSE}}) |->
        CASE k = "name" -> name
          [] k = "title" -> title
          [] k = "updates" -> updates
          [] k = "impactedProducts" -> RawProducts]

RawDicts ==
    {EventDict(n, t, TRUE, u, p) :
        n \in {Absent, "events/abc"}, t \in {Absent, "Test Outage"},
        u \in SeqsUpTo(RawUpdates, MaxUpdates), p \in BOOLEAN}
    \cup {EventDict(n, t, FALSE, <<>>, p) :
        n \in {Absent, "events/abc"}, t \in {Absent, "Test Outage"},
        p \in BOOLEAN}

\* Proto field name (snake_case) of a JSON key, and back.
SnakeOf(k) ==
    CASE k = "updateTime" -> "update_time"
      [] k = "impactedProducts" -> "impacted_products"
      [] k = "productName" -> "product_name"
      [] OTHER -> k

CamelOf(k) ==
    CASE k = "update_time" -> "updateTime"
      [] k = "impacted_products" -> "impactedProducts"
      [] k = "product_name" -> "productName"
      [] OTHER -> k

\* A flat message (an update or a product) with proto field names.
FlatProto(d) ==
    [f \in {SnakeOf(k) : k \in DOMAIN d} |-> d[CamelOf(f)]]

\* The typed event (event_pb._pb) that carries the fields of mapping d.
ProtoOf(d) ==
    [f \in {SnakeOf(k) : k \in DOMAIN d} |->
        IF f \in {"updates", "impacted_products"}
        THEN [i \in 1..Len(d[CamelOf(f)]) |-> FlatProto(d[CamelOf(f)][i])]
        ELSE d[CamelOf(f)]]

\* MessageToDict on a flat message: camelCase keys, default ("") fields
\* left out.
FlatToDict(m) ==
    [k \in {CamelOf(f) : f \in {g \in DOMAIN m : m[g] /= ""}} |-> m[SnakeOf(k)]]

\* MessageToDict(event_pb._pb): camelCase keys; empty repeated fields and
\* default scalar fields are left out.
MessageToDict(pb) ==
    LET repeated == {"updates", "impacted_products"}
        kept == {f \in DOMAIN pb :
                    IF f \in repeated THEN pb[f] /= <<>> ELSE pb[f] /= ""}
    IN  [k \in {CamelOf(f) : f \in kept} |->
            IF SnakeOf(k) \in repeated
            THEN [i \in 1..Len(pb[SnakeOf(k)]) |-> FlatToDict(pb[SnakeOf(k)][i])]
            ELSE pb[SnakeOf(k)]]

\* The three shapes _format_event_details accepts.
RawEvents ==
    {[kind |-> "mapping", data |-> d] : d \in RawDicts}
    \cup {[kind |-> "typed", data |-> ProtoOf(d)] : d \in RawDicts}
    \cup {[kind |-> "other", data |-> EmptyDict]}

\* Lines 74-77: the mapping the fields are read from.
EventData(event_pb) ==
    IF event_pb.kind = "typed" THEN MessageToDict(event_pb.data)
    ELSE IF event_pb.kind = "mapping" THEN event_pb.data
    ELSE EmptyDict

\* Lines 82-87: one timeline entry; every key is present, None when unset.
TimelineEntry(update) ==
    [time |-> Get(update, "updateTime", NoneVal),
     title |-> Get(update, "title", NoneVal),
     description |-> Get(update, "description", NoneVal),
     workaround |-> Get(update, "workaround", NoneVal)]

\* key=lambda x: x.get("time", ""): the key "time" is always present, so
\* the default is never used and an unset time gives None.
SortKey(x) ==
    Get(x, "time", "")

\* list.sort compares every element with another one when there are two or
\* more; a comparison with None on either side raises TypeError.
SortRaises(timeline) ==
    /\ Len(timeline) >= 2
    /\ \E i \in 1..Len(timeline) : SortKey(timeline[i]) = NoneVal

RECURSIVE InsertDesc(_, _)
\* x placed after every entry whose key is not smaller (reverse=True keeps
\* the original order of equal keys).
InsertDesc(s, x) ==
    IF s = <<>> THEN <<x>>
    ELSE IF StrLess(SortKey(Head(s)), SortKey(x)) THEN <<x>> \o s
    ELSE <<Head(s)>> \o InsertDesc(Tail(s), x)

RECURSIVE SortDescFrom(_, _, _)
SortDescFrom(timeline, i, acc) ==
    IF i > Len(timeline) THEN acc
    ELSE SortDescFrom(timeline, i + 1, InsertDesc(acc, timeline[i]))

\* timeline.sort(key=..., reverse=True) when it does not raise.
SortDesc(timeline) ==
    IF Len(timeline) <= 1 THEN timeline ELSE SortDescFrom(timeline, 1, <<>>)

\* Lines 79-87: the timeline before sorting.
BuildTimeline(data) ==
    LET raw_updates == Get(data, "updates", <<>>)
    IN  [i \in 1..Len(raw_updates) |-> TimelineEntry(raw_updates[i])]

\* Lines 90-91.
ProductNames(data) ==
    LET products == Get(data, "impactedProducts", <<>>)
    IN  [i \in 1..Len(products) |-> Get(products[i], "productName", NoneVal)]

\* The returned dict with the title read from the wrong key.
FormattedDictTitleFromName(data, timeline) ==
    [id |-> Get(data, "name", NoneVal),
     title |-> Get(data, "name", NoneVal),
     state |-> Get(data, "state", NoneVal),
     last_updated |-> Get(data, "updateTime", NoneVal),
     impacted_products |-> ProductNames(data),
     timeline |-> timeline,
     latest_workaround |->
        IF timeline /= <<>> THEN Get(timeline[1], "workaround", NoneVal)
        ELSE NoneVal]

\* Lines 93-101: the returned dict.
FormattedDict(data, timeline) ==
    [id |-> Get(data, "name", NoneVal),
     title |-> Get(data, "title", NoneVal),
     state |-> Get(data, "state", NoneVal),
     last_updated |-> Get(data, "updateTime", NoneVal),
     impacted_products |-> ProductNames(data),
     timeline |-> timeline,
     latest_workaround |->
        IF timeline /= <<>> THEN Get(timeline[1], "workaround", NoneVal)
        ELSE NoneVal]

\* _format_event_details: error is TypeErr when the sort raises, and then
\* nothing is returned.
format_event_details(event_pb) ==
    LET data == EventData(event_pb)
        timeline == BuildTimeline(data)
    IN  IF SortRaises(timeline)
        THEN [error |-> TypeErr, value |-> EmptyDict]
        ELSE [error |-> NoError, value |-> FormattedDict(data, SortDesc(timeline))]

\* ------------------------------------------------------ the query service

\* Continuation tokens, in the order the service hands them out.
TokenNames ==
    <<"t1", "t2", "t3", "t4", "t5">>

\* Which page a request's page_token asks for: None and "" ask for the first.
PageIndex(token) ==
    IF ~Truthy(token) THEN 1
    ELSE 1 + CHOOSE k \in 1..Len(TokenNames) : TokenNames[k] = token

\* next_page_token of the page a request got: "" on the last page.
NextToken(request, more) ==
    IF more THEN TokenNames[PageIndex(request.page_token)] ELSE ""

\* A page never holds more records than the request's page_size; a request
\* with no positive page_size leaves the size to the service.
PageCap(hint) ==
    IF hint > 0 THEN Min(hint, MaxPageLen) ELSE MaxPageLen

\* What the service may answer to a request for records drawn from S: a
\* page, or (kind "nopages") a pager that yields no page at all.
Responses(S, request) ==
    {[kind |-> "page", records |-> r, next_page_token |-> NextToken(request, m)] :
        r \in SeqsUpTo(S, PageCap(request.page_size)),
        m \in {b \in BOOLEAN : b => PageIndex(request.page_token) <= MaxTokens}}
    \cup {[kind |-> "nopages", records |-> <<>>, next_page_token |-> ""] :
        x \in {y \in {request.page_token} : ~Truthy(y)}}

Projects ==
    {"projects/100", "projects/200"}

\* .project of a marker record; "" when the field is empty.
MarkerProjects ==
    Projects \cup {""}

\* Asset records search_assets lists.
Resources ==
    {[name |-> "//compute/instances/i1", asset_type |-> "compute.googleapis.com/Instance",
      display_name |-> "i1", project |-> "projects/100", state |-> "RUNNING",
      location |-> "us-central1-a"],
     [name |-> "//compute/instances/i2", asset_type |-> "compute.googleapis.com/Instance",
      display_name |-> "i2", project |-> "projects/200", state |-> "", 
      location |-> "us-east1-b"]}

\* A scope is its path segments; <<>> is the empty string.
Scopes ==
    {<<"organizations", "123456789">>, <<"projects", "my-project">>, <<>>}

\* "organizations" in scope
IsOrgScope(scp) ==
    \E i \in 1..Len(scp) : scp[i] = "organizations"

MaxProjectsValues ==
    {0, 1, DefaultMaxProjects, OrgSafetyCap, OrgSafetyCap + 1}

PageSizes ==
    {1, DefaultPageSize}

\* The last request sent.
LastRequest ==
    netLog[Len(netLog)]

\* -------------------------------------- list_projects_without_service_health

\* req_projects (lines 178-183); page_size=max_projects.
CandidateRequest(maxp) ==
    [query |-> "state=ACTIVE", page_size |-> maxp, page_token |-> NoneVal]

\* req_enabled (lines 221-226), and the pager's requests for later pages.
MarkerRequest(token) ==
    [query |-> "name:servicehealth.googleapis.com", page_size |-> MarkerPageSize,
     page_token |-> token]

\* Lines 169-187 with the first request sent before the arguments are
\* checked.
AuditEntryRequestFirst(token, ctx_token, scp, maxp) ==
    LET c == create_creds(token, ctx_token)
    IN  IF c.error /= NoError
        THEN [error |-> c.error, creds |-> NoneVal, requests |-> <<>>]
        ELSE IF IsOrgScope(scp) /\ maxp > OrgSafetyCap
        THEN [error |-> SafetyGuard, creds |-> c.creds,
              requests |-> <<CandidateRequest(maxp)>>]
        ELSE [error |-> NoError, creds |-> c.creds,
              requests |-> <<CandidateRequest(maxp)>>]

\* Lines 169-187: credentials, the safety check, then the candidate request.
AuditEntry(token, ctx_token, scp, maxp) ==
    LET c == create_creds(token, ctx_token)
    IN  IF c.error /= NoError
        THEN [error |-> c.error, creds |-> NoneVal, requests |-> <<>>]
        ELSE IF IsOrgScope(scp) /\ maxp > OrgSafetyCap
        THEN [error |-> SafetyGuard, creds |-> c.creds, requests |-> <<>>]
        ELSE [error |-> NoError, creds |-> c.creds,
              requests |-> <<CandidateRequest(maxp)>>]

\* The check of line 196 left out: the audit always goes on to the markers.
NoCandidatesNever(projects) ==
    FALSE

\* Line 196: if not projects_to_check
NoCandidates(projects) ==
    projects = <<>>

\* Line 194: break after the first page, whatever its token.
CandidateFetchesNext(page) ==
    FALSE

\* Line 230: the loop has no break; the pager fetches while a token is left.
MarkerFetchesNext(page) ==
    page.next_page_token /= ""

\* Lines 231-235: the projects of a page's records, empty ones skipped.
AddEnabled(enabled, records) ==
    enabled \cup {records[i] : i \in {j \in 1..Len(records) : records[j] /= ""}}

\* Lines 243-247 with the membership test inverted.
DisabledInverted(projects, enabled) ==
    SelectSeq(projects, LAMBDA p : p \in enabled)

\* Lines 243-247: the candidates that are not enabled, in order.
Disabled(projects, enabled) ==
    SelectSeq(projects, LAMBDA p : p \notin enabled)

\* Line 197.
EmptyAuditResult ==
    [disabled_projects |-> <<>>, warning |-> "No active projects found in scope."]

\* Lines 249-253.
AuditResult(projects, enabled) ==
    [disabled_projects |-> Disabled(projects, enabled),
     scanned_count |-> Len(projects),
     warning |-> <<"Scanned first", Len(projects),
                   "projects. Pass page_token (not impl yet) for more.">>]

\* list_projects_without_service_health up to its first await.
AuditCall ==
    /\ pc = "idle"
    /\ \E h \in Headers, t \in ExplicitTokens, s \in Scopes, m \in MaxProjectsValues :
        LET o == AuditEntry(t, DispatchToken(h), s, m)
        IN  /\ tool' = "audit"
            /\ explicit' = t
            /\ ambient' = DispatchToken(h)
            /\ scope' = s
            /\ max_projects' = m
            /\ creds' = o.creds
            /\ error' = o.error
            /\ netLog' = o.requests
            /\ pc' = IF o.error = NoError THEN "cand_wait" ELSE "done"
    /\ UNCHANGED <<page_size, page_token, project_id, projects_to_check,
                   enabled_projects, results, result, candServed, candMore,
                   markServed, markMore, lastPage, concVars, normVars>>

\* Lines 187-230: a candidate page arrives; the loop takes its records and
\* breaks, then the audit returns early or sends the marker request.
AuditCandidatePage ==
    /\ pc = "cand_wait"
    /\ \E page \in Responses(Projects, LastRequest) :
        LET got == projects_to_check \o page.records
        IN  /\ projects_to_check' = got
            /\ candServed' = candServed \o page.records
            /\ candMore' = (page.next_page_token /= "")
            /\ IF page.kind = "page" /\ CandidateFetchesNext(page)
               THEN /\ netLog' = Append(netLog,
                            [LastRequest EXCEPT !.page_token = page.next_page_token])
                    /\ UNCHANGED <<pc, result>>
               ELSE IF NoCandidates(got)
               THEN /\ result' = EmptyAuditResult
                    /\ pc' = "done"
                    /\ UNCHANGED netLog
               ELSE /\ netLog' = Append(netLog, MarkerRequest(NoneVal))
                    /\ pc' = "mark_wait"
                    /\ UNCHANGED result
    /\ UNCHANGED <<tool, explicit, ambient, creds, error, scope, max_projects,
                   page_size, page_token, project_id, enabled_projects, results,
                   markServed, markMore, lastPage, concVars, normVars>>

\* Lines 187 and 230: a page fetch of the candidate or the marker scan
\* raises. Nothing catches it: the exception leaves the tool, no value is
\* returned and the locals are dropped with the frame (the variables keep
\* what had been collected up to the failure).
AuditFetchFails ==
    /\ pc \in {"cand_wait", "mark_wait"}
    /\ error' = ServiceError
    /\ pc' = "done"
    /\ UNCHANGED <<tool, explicit, ambient, creds, netLog, scope, max_projects,
                   page_size, page_token, project_id, projects_to_check,
                   enabled_projects, results, result, candServed, candMore,
                   markServed, markMore, lastPage, concVars, normVars>>

\* Lines 230-253: a marker page arrives; its projects are added, and the
\* pager fetches the next page or the loop ends and the audit returns.
AuditMarkerPage ==
    /\ pc = "mark_wait"
    /\ \E page \in Responses(MarkerProjects, LastRequest) :
        LET enabled == AddEnabled(enabled_projects, page.records)
        IN  /\ enabled_projects' = enabled
            /\ markServed' = markServed \cup {r \in Projects :
                                \E i \in 1..Len(page.records) : page.records[i] = r}
            /\ markMore' = (page.next_page_token /= "")
            /\ IF page.kind = "page" /\ MarkerFetchesNext(page)
               THEN /\ netLog' = Append(netLog, MarkerRequest(page.next_page_token))
                    /\ UNCHANGED <<pc, result>>
               ELSE /\ result' = AuditResult(projects_to_check, enabled)
                    /\ pc' = "done"
                    /\ UNCHANGED netLog
    /\ UNCHANGED <<tool, explicit, ambient, creds, error, scope, max_projects,
                   page_size, page_token, project_id, projects_to_check, results,
                   candServed, candMore, lastPage, concVars, normVars>>

\* ------------------------------------------------------------ search_assets

\* request (lines 89-95)
AssetRequest(ps, token) ==
    [query |-> "assets", page_size |-> ps, page_token |-> token]

\* Lines 87-99: credentials, then the first search_all_resources call.
SearchEntry(token, ctx_token, ps, pt) ==
    LET c == create_creds(token, ctx_token)
    IN  IF c.error /= NoError
        THEN [error |-> c.error, creds |-> NoneVal, requests |-> <<>>]
        ELSE [error |-> NoError, creds |-> c.creds,
              requests |-> <<AssetRequest(ps, pt)>>]

\* Lines 125-131: the dict made of one resource.
ResourceDict(r) ==
    [name |-> r.name, asset_type |-> r.asset_type, display_name |-> r.display_name,
     project |-> r.project, state |-> r.state]

\* The loop over pager.pages left to run: the pager fetches while a token
\* is left.
SearchFetchesNextAuto(page) ==
    page.next_page_token /= ""

\* Lines 133-136: return inside the loop, so no second page is asked for.
SearchFetchesNext(page) ==
    FALSE

\* Lines 133-136.
SearchResult(found, page) ==
    [resources |-> found,
     next_page_token |->
        IF page.next_page_token /= "" THEN page.next_page_token ELSE NoneVal]

\* Line 139.
NoPagesResult ==
    [resources |-> <<>>, next_page_token |-> NoneVal]

\* search_assets up to its first await (line 99).
SearchCall ==
    /\ pc = "idle"
    /\ \E h \in Headers, t \in ExplicitTokens, ps \in PageSizes,
          pt \in {NoneVal, TokenNames[1]} :
        LET o == SearchEntry(t, DispatchToken(h), ps, pt)
        IN  /\ tool' = "search"
            /\ explicit' = t
            /\ ambient' = DispatchToken(h)
            /\ page_size' = ps
            /\ page_token' = pt
            /\ creds' = o.creds
            /\ error' = o.error
            /\ netLog' = o.requests
            /\ pc' = IF o.error = NoError THEN "search_wait1" ELSE "done"
    /\ UNCHANGED <<scope, max_projects, project_id, projects_to_check,
                   enabled_projects, results, result, candServed, candMore,
                   markServed, markMore, lastPage, concVars, normVars>>

\* Lines 99-120: the answer to the first call is bound to page_result and
\* never read; the same request is sent again to get the pager.
SearchSecondCall ==
    /\ pc = "search_wait1"
    /\ netLog' = Append(netLog, AssetRequest(page_size, page_token))
    /\ pc' = "search_wait2"
    /\ UNCHANGED <<tool, explicit, ambient, creds, error, scope, max_projects,
                   page_size, page_token, project_id, projects_to_check,
                   enabled_projects, results, result, candServed, candMore,
                   markServed, markMore, lastPage, concVars, normVars>>

\* Lines 120-139: the pager's page arrives and the tool returns.
SearchPage ==
    /\ pc = "search_wait2"
    /\ \E page \in Responses(Resources, LastRequest) :
        LET found == results \o [i \in 1..Len(page.records) |->
                                    ResourceDict(page.records[i])]
        IN  /\ lastPage' = page
            /\ results' = found
            /\ IF page.kind = "nopages"
               THEN /\ result' = NoPagesResult
                    /\ pc' = "done"
                    /\ UNCHANGED netLog
               ELSE IF SearchFetchesNext(page)
               THEN /\ netLog' = Append(netLog,
                            AssetRequest(page_size, page.next_page_token))
                    /\ UNCHANGED <<pc, result>>
               ELSE /\ result' = SearchResult(found, page)
                    /\ pc' = "done"
                    /\ UNCHANGED netLog
    /\ UNCHANGED <<tool, explicit, ambient, creds, error, scope, max_projects,
                   page_size, page_token, project_id, projects_to_check,
                   enabled_projects, candServed, candMore, markServed, markMore,
                   concVars, normVars>>

\* ------------------------------------------------------- list_active_events

Letters ==
    {"a", "Z"}

Digits ==
    {"1"}

\* A project id is its characters.
IdChars ==
    Letters \cup Digits \cup {"-", ";"}

ProjectIds ==
    SeqsUpTo(IdChars, MaxIdLen)

\* project_id.replace("-", "")
WithoutHyphens(s) ==
    SelectSeq(s, LAMBDA c : c /= "-")

\* str.isalnum(): not empty and every character a letter or a digit.
IsAlnum(s) ==
    s /= <<>> /\ \A i \in 1..Len(s) : s[i] \in Letters \cup Digits

\* request (line 118); no page size is set.
EventsRequest(pid) ==
    [query |-> "state = ACTIVE", page_size |-> 0, page_token |-> NoneVal]

\* Lines 112-121: credentials first, then the project id check, then the
\* list_events call.
EventsEntry(token, ctx_token, pid) ==
    LET c == create_creds(token, ctx_token)
    IN  IF c.error /= NoError
        THEN [error |-> c.error, creds |-> NoneVal, requests |-> <<>>]
        ELSE IF ~IsAlnum(WithoutHyphens(pid))
        THEN [error |-> InvalidProject, creds |-> c.creds, requests |-> <<>>]
        ELSE [error |-> NoError, creds |-> c.creds,
              requests |-> <<EventsRequest(pid)>>]

\* Events the health service may list.
SampleEvents ==
    {[kind |-> "typed",
      data |-> ProtoOf(EventDict("events/abc", "Test Outage", TRUE,
                                 <<UpdateDict(T10, "w1")>>, TRUE))],
     [kind |-> "mapping",
      data |-> EventDict("events/abc", Absent, TRUE,
                         <<UpdateDict(Absent, "w1"), UpdateDict(T12, "w2")>>, FALSE)],
     [kind |-> "other", data |-> EmptyDict]}

\* Lines 120-124: events formatted in order, at most EventLimit of them; an
\* exception of _format_event_details ends the tool.
FormatEvents(evs) ==
    LET n == Min(Len(evs), EventLimit)
        formatted == [i \in 1..n |-> format_event_details(evs[i])]
    IN  IF \E i \in 1..n : formatted[i].error /= NoError
        THEN [error |-> TypeErr, value |-> <<>>]
        ELSE [error |-> NoError, value |-> [i \in 1..n |-> formatted[i].value]]

\* list_active_events up to its first await.
EventsCall ==
    /\ pc = "idle"
    /\ \E h \in Headers, t \in ExplicitTokens, pid \in ProjectIds :
        LET o == EventsEntry(t, DispatchToken(h), pid)
        IN  /\ tool' = "events"
            /\ explicit' = t
            /\ ambient' = DispatchToken(h)
            /\ project_id' = pid
            /\ creds' = o.creds
            /\ error' = o.error
            /\ netLog' = o.requests
            /\ pc' = IF o.error = NoError THEN "events_wait" ELSE "done"
    /\ UNCHANGED <<scope, max_projects, page_size, page_token, projects_to_check,
                   enabled_projects, results, result, candServed, candMore,
                   markServed, markMore, lastPage, concVars, normVars>>

\* Lines 121-124: the listed events arrive and are formatted.
EventsResponse ==
    /\ pc = "events_wait"
    /\ \E evs \in SeqsUpTo(SampleEvents, MaxPageLen) :
        LET o == FormatEvents(evs)
        IN  /\ error' = o.error
            /\ result' = IF o.error = NoError THEN [events |-> o.value] ELSE result
    /\ pc' = "done"
    /\ UNCHANGED <<tool, explicit, ambient, creds, netLog, scope, max_projects,
                   page_size, page_token, project_id, projects_to_check,
                   enabled_projects, results, candServed, candMore, markServed,
                   markMore, lastPage, concVars, normVars>>

\* An awaited call of search_assets, list_active_events, list_org_events or
\* get_event_details raises; nothing catches it.
CallFails ==
    /\ pc \in {"search_wait1", "search_wait2", "events_wait",
               "org_events_wait", "details_wait"}
    /\ error' = ServiceError
    /\ pc' = "done"
    /\ UNCHANGED <<tool, explicit, ambient, creds, netLog, scope, max_projects,
                   page_size, page_token, project_id, projects_to_check,
                   enabled_projects, results, result, candServed, candMore,
                   markServed, markMore, lastPage, concVars, normVars>>

\* ---------------------------------------------------------- list_org_events

\* request (line 135)
OrgEventsRequest ==
    [query |-> "org: state = ACTIVE", page_size |-> 0, page_token |-> NoneVal]

\* Lines 132-138: credentials, then the list_organization_events call.
OrgEventsEntry(token, ctx_token) ==
    LET c == create_creds(token, ctx_token)
    IN  IF c.error /= NoError
        THEN [error |-> c.error, creds |-> NoneVal, requests |-> <<>>]
        ELSE [error |-> NoError, creds |-> c.creds, requests |-> <<OrgEventsRequest>>]

\* list_org_events up to its first await.
OrgEventsCall ==
    /\ pc = "idle"
    /\ \E h \in Headers, t \in ExplicitTokens :
        LET o == OrgEventsEntry(t, DispatchToken(h))
        IN  /\ tool' = "org_events"
            /\ explicit' = t
            /\ ambient' = DispatchToken(h)
            /\ creds' = o.creds
            /\ error' = o.error
            /\ netLog' = o.requests
            /\ pc' = IF o.error = NoError THEN "org_events_wait" ELSE "done"
    /\ UNCHANGED <<scope, max_projects, page_size, page_token, project_id,
                   projects_to_check, enabled_projects, results, result, candServed,
                   candMore, markServed, markMore, lastPage, concVars, normVars>>

\* Lines 138-141: the listed events arrive and are formatted.
OrgEventsResponse ==
    /\ pc = "org_events_wait"
    /\ \E evs \in SeqsUpTo(SampleEvents, MaxPageLen) :
        LET o == FormatEvents(evs)
        IN  /\ error' = o.error
            /\ result' = IF o.error = NoError THEN [events |-> o.value] ELSE result
    /\ pc' = "done"
    /\ UNCHANGED <<tool, explicit, ambient, creds, netLog, scope, max_projects,
                   page_size, page_token, project_id, projects_to_check,
                   enabled_projects, results, candServed, candMore, markServed,
                   markMore, lastPage, concVars, normVars>>

\* -------------------------------------------------------- get_event_details

\* An event name is its path segments.
EventNames ==
    {<<"organizations", "1", "locations", "global", "organizationEvents", "e1">>,
     <<"projects", "p", "locations", "global", "events", "e1">>}

\* Lines 151-156: the request chosen by "organizationEvents" in event_name.
DetailsRequest(event_name) ==
    [query |-> IF \E i \in 1..Len(event_name) : event_name[i] = "organizationEvents"
               THEN "get_organization_event" ELSE "get_event",
     page_size |-> 0, page_token |-> NoneVal]

\* Lines 149-156: credentials, then the get call.
DetailsEntry(token, ctx_token, event_name) ==
    LET c == create_creds(token, ctx_token)
    IN  IF c.error /= NoError
        THEN [error |-> c.error, creds |-> NoneVal, requests |-> <<>>]
        ELSE [error |-> NoError, creds |-> c.creds,
              requests |-> <<DetailsRequest(event_name)>>]

\* get_event_details up to its await.
DetailsCall ==
    /\ pc = "idle"
    /\ \E h \in Headers, t \in ExplicitTokens, n \in EventNames :
        LET o == DetailsEntry(t, DispatchToken(h), n)
        IN  /\ tool' = "details"
            /\ explicit' = t
            /\ ambient' = DispatchToken(h)
            /\ creds' = o.creds
            /\ error' = o.error
            /\ netLog' = o.requests
            /\ pc' = IF o.error = NoError THEN "details_wait" ELSE "done"
    /\ UNCHANGED <<scope, max_projects, page_size, page_token, project_id,
                   projects_to_check, enabled_projects, results, result, candServed,
                   candMore, markServed, markMore, lastPage, concVars, normVars>>

\* Line 157: the event arrives and is formatted.
DetailsResponse ==
    /\ pc = "details_wait"
    /\ \E ev \in SampleEvents :
        LET o == format_event_details(ev)
        IN  /\ error' = o.error
            /\ result' = IF o.error = NoError THEN o.value ELSE result
    /\ pc' = "done"
    /\ UNCHANGED <<tool, explicit, ambient, creds, netLog, scope, max_projects,
                   page_size, page_token, project_id, projects_to_check,
                   enabled_projects, results, candServed, candMore, markServed,
                   markMore, lastPage, concVars, normVars>>

\* --------------------------------------------------------- initial states

\* No tool call has started.
InitTool ==
    /\ tool = "none"
    /\ pc = "idle"
    /\ explicit = NoneVal
    /\ ambient = NoneVal
    /\ creds = NoneVal
    /\ error = NoError
    /\ netLog = <<>>
    /\ scope = <<>>
    /\ max_projects = DefaultMaxProjects
    /\ page_size = DefaultPageSize
    /\ page_token = NoneVal
    /\ project_id = <<>>
    /\ projects_to_check = <<>>
    /\ enabled_projects = {}
    /\ results = <<>>
    /\ result = EmptyDict
    /\ candServed = <<>>
    /\ candMore = FALSE
    /\ markServed = {}
    /\ markMore = FALSE
    /\ lastPage = [kind |-> "nopages", records |-> <<>>, next_page_token |-> ""]

Requests ==
    {1, 2}

\* No request has arrived; request_auth_token has its default, None.
InitConc ==
    /\ cpc = [i \in Requests |-> "new"]
    /\ header = [i \in Requests |-> <<>>]
    /\ cexplicit = [i \in Requests |-> NoneVal]
    /\ ctx = [i \in Requests |-> NoneVal]
    /\ resolved = [i \in Requests |-> [ok |-> FALSE, token |-> NoneVal]]

\* No event has been handed to the normaliser.
InitNormIdle ==
    /\ npc = "off"
    /\ raw = [kind |-> "other", data |-> EmptyDict]
    /\ out1 = EmptyDict
    /\ err1 = NoError
    /\ out2 = EmptyDict
    /\ err2 = NoError

\* ---------------------------------------------------------------- SpecNorm

InitNorm ==
    /\ npc = "raw"
    /\ raw \in RawEvents
    /\ out1 = EmptyDict
    /\ err1 = NoError
    /\ out2 = EmptyDict
    /\ err2 = NoError
    /\ InitTool
    /\ InitConc

\* result = _format_event_details(raw)
Format ==
    /\ npc = "raw"
    /\ LET r == format_event_details(raw)
       IN  /\ out1' = r.value
           /\ err1' = r.error
    /\ npc' = "formatted"
    /\ UNCHANGED <<raw, out2, err2, toolVars, concVars>>

\* _format_event_details(result): the first result passed back in as a
\* plain mapping.
Reformat ==
    /\ npc = "formatted"
    /\ err1 = NoError
    /\ LET r == format_event_details([kind |-> "mapping", data |-> out1])
       IN  /\ out2' = r.value
           /\ err2' = r.error
    /\ npc' = "reformatted"
    /\ UNCHANGED <<raw, out1, err1, toolVars, concVars>>

NextNorm ==
    \/ Format
    \/ Reformat

SpecNorm ==
    InitNorm /\ [][NextNorm]_vars

\* -------------------------------------------------------------------- Spec

Init ==
    /\ InitTool
    /\ InitConc
    /\ InitNormIdle

Next ==
    \/ AuditCall
    \/ AuditCandidatePage
    \/ AuditMarkerPage
    \/ AuditFetchFails
    \/ CallFails
    \/ SearchCall
    \/ SearchSecondCall
    \/ SearchPage
    \/ EventsCall
    \/ EventsResponse
    \/ OrgEventsCall
    \/ OrgEventsResponse
    \/ DetailsCall
    \/ DetailsResponse

Spec ==
    Init /\ [][Next]_vars

\* ---------------------------------------------------------------- SpecConc

\* request_auth_token as one module-level variable shared by every task.
ContextSetShared(c, i, v) ==
    [j \in DOMAIN c |-> v]

\* request_auth_token.set(v) in the task of request i: a ContextVar is set
\* in the current task's context only.
ContextSet(c, i, v) ==
    [c EXCEPT ![i] = v]

\* request_auth_token.get() in the task of request i.
ContextGet(c, i) ==
    c[i]

\* A request arrives and the server starts a task for it; the task's
\* context holds the variable's default.
Arrive(i) ==
    /\ cpc[i] = "new"
    /\ \E h \in Headers, t \in ExplicitTokens :
        /\ header' = [header EXCEPT ![i] = h]
        /\ cexplicit' = [cexplicit EXCEPT ![i] = t]
    /\ cpc' = [cpc EXCEPT ![i] = "arrived"]
    /\ UNCHANGED <<ctx, resolved, toolVars, normVars>>

\* AuthMiddleware.dispatch up to call_next.
Dispatch(i) ==
    /\ cpc[i] = "arrived"
    /\ ctx' = ContextSet(ctx, i, DispatchToken(header[i]))
    /\ cpc' = [cpc EXCEPT ![i] = "dispatched"]
    /\ UNCHANGED <<header, cexplicit, resolved, toolVars, normVars>>

\* The tool called by call_next resolves its token (create_creds).
Resolve(i) ==
    /\ cpc[i] = "dispatched"
    /\ resolved' = [resolved EXCEPT ![i] = get_token(cexplicit[i], ContextGet(ctx, i))]
    /\ cpc' = [cpc EXCEPT ![i] = "done"]
    /\ UNCHANGED <<header, cexplicit, ctx, toolVars, normVars>>

InitConcSpec ==
    /\ InitConc
    /\ InitTool
    /\ InitNormIdle

NextConc ==
    \E i \in Requests :
        \/ Arrive(i)
        \/ Dispatch(i)
        \/ Resolve(i)

SpecConc ==
    InitConcSpec /\ [][NextConc]_vars

\* ------------------------------------------------------------------ claims

\* Number of requests in the log that carry query q.
Sent(q) ==
    Cardinality({i \in 1..Len(netLog) : netLog[i].query = q})

\* The result carries truncated=true.
MarkedTruncated ==
    "truncated" \in DOMAIN result /\ result["truncated"] = TRUE

AuditReturned ==
    tool = "audit" /\ pc = "done" /\ error = NoError

\* C1: every scan stays within its budget: the audit's candidate scan sends
\* at most one page fetch and keeps at most max_projects records, the marker
\* scan sends at most the one page fetch of MarkerPageSize records it asks
\* for, and the listing sends at most one page fetch and returns at most
\* page_size records.
C1_ScanWithinBudget ==
    /\ tool = "audit" =>
        /\ Sent(CandidateRequest(max_projects).query) <= 1
        /\ max_projects > 0 => Len(projects_to_check) <= max_projects
        /\ Sent(MarkerRequest(NoneVal).query) <= 1
        /\ Cardinality(enabled_projects) <= MarkerPageSize
    /\ tool = "search" =>
        /\ Len(netLog) <= 1
        /\ (pc = "done" /\ error = NoError) => Len(result.resources) <= page_size

C3_TruncatedSignalled ==
    AuditReturned => (MarkedTruncated <=> (candMore \/ markMore))

\* C4: search_assets asks for the page its page_token names and for no
\* other, returns that page's records and that page's token (None when the
\* page has none or the pager yields no page).
C4_SearchSinglePage ==
    tool = "search" =>
        /\ \A i \in 1..Len(netLog) : netLog[i].page_token = page_token
        /\ (pc = "done" /\ error = NoError) =>
            /\ Len(result.resources) = Len(lastPage.records)
            /\ \A i \in 1..Len(lastPage.records) :
                result.resources[i] =
                    [name |-> lastPage.records[i].name,
                     asset_type |-> lastPage.records[i].asset_type,
                     display_name |-> lastPage.records[i].display_name,
                     project |-> lastPage.records[i].project,
                     state |-> lastPage.records[i].state]
            /\ result.next_page_token =
                  (IF lastPage.next_page_token = "" THEN NoneVal
                   ELSE lastPage.next_page_token)

C4_Witness ==
    /\ tool = "search" /\ pc = "done" /\ error = NoError
    /\ lastPage.next_page_token /= ""
    /\ Len(result.resources) >= 1
    /\ result.next_page_token = lastPage.next_page_token

\* C5: the credential holds the explicit token when one is given, else the
\* ambient token, and when neither is given the call fails with the
\* authentication error and creates no credential.
C5_TokenPrecedence ==
    tool /= "none" =>
        IF Truthy(explicit) THEN creds = explicit /\ error /= AuthRequired
        ELSE IF Truthy(ambient) THEN creds = ambient /\ error /= AuthRequired
        ELSE error = AuthRequired /\ creds = NoneVal

C5_Witness ==
    tool /= "none" /\ explicit = "A" /\ ambient = "B" /\ creds = "A"

\* C6: under every interleaving a request resolves its own explicit token,
\* else the bearer token of its own header, else nothing; never a token
\* another request set.
C6_NoCrossContamination ==
    \A i \in Requests :
        cpc[i] = "done" =>
            IF Truthy(cexplicit[i])
            THEN resolved[i] = [ok |-> TRUE, token |-> cexplicit[i]]
            ELSE IF Truthy(DispatchToken(header[i]))
            THEN resolved[i] = [ok |-> TRUE, token |-> DispatchToken(header[i])]
            ELSE ~resolved[i].ok

C6_Witness ==
    /\ cpc[1] = "done" /\ cpc[2] = "done"
    /\ cexplicit[1] = "A" /\ header[1] = <<>>
    /\ cexplicit[2] = NoneVal /\ header[2] = <<"Bearer", "B">>
    /\ resolved[1].token = "A" /\ resolved[2].token = "B"

\* C7: a call that ends in the authentication error or an input error has
\* sent nothing to the query service.
C7_RejectedBeforeNetwork ==
    error \in {AuthRequired, InvalidProject, SafetyGuard} => netLog = <<>>

C7_Witness ==
    tool = "audit" /\ error = SafetyGuard /\ creds /= NoneVal /\ netLog = <<>>

\* C8: list_active_events with a project id holding a character that is no
\* letter, digit or hyphen fails with the invalid project_id error, with or
\* without a token.
C8_InvalidProjectIdRejected ==
    (tool = "events"
     /\ \E i \in 1..Len(project_id) : project_id[i] \notin Letters \cup Digits \cup {"-"})
        => error = InvalidProject

\* Entry a may stand before entry b in a timeline sorted by time, newest
\* first, entries without a time last.
InOrder(a, b) ==
    b.time = NoneVal \/ (a.time /= NoneVal /\ ~StrLess(a.time, b.time))

\* C9: formatting never raises; the timeline is sorted by time, newest
\* first, entries without a time last, and latest_workaround is the
\* workaround of the first entry, None when the timeline is empty.
C9_TimelineSortedNoRaise ==
    npc \in {"formatted", "reformatted"} =>
        /\ err1 = NoError
        /\ \A i \in 1..(Len(out1.timeline) - 1) :
              InOrder(out1.timeline[i], out1.timeline[i + 1])
        /\ out1.latest_workaround =
              (IF out1.timeline = <<>> THEN NoneVal
               ELSE out1.timeline[1].workaround)

\* C10 as stated: formatting the first result again gives the same id,
\* title and latest_workaround.
C10_FormatIdempotent ==
    npc = "reformatted" =>
        /\ out2.id = out1.id
        /\ out2.title = out1.title
        /\ out2.latest_workaround = out1.latest_workaround

\* C10 amended: formatting the first result again does not raise and keeps
\* the title; id and latest_workaround come back None and the timeline
\* empty, since the result has no "name" and no "updates" key.
C10_ReformatKeepsTitleOnly ==
    npc = "reformatted" =>
        /\ err2 = NoError
        /\ out2.title = out1.title
        /\ out2.id = NoneVal
        /\ out2.timeline = <<>>
        /\ out2.latest_workaround = NoneVal

C10_Witness ==
    /\ npc = "reformatted"
    /\ out1.id /= NoneVal
    /\ out1.title /= NoneVal
    /\ out1.latest_workaround /= NoneVal

\* C11: an audit called with an empty scope or with max_projects <= 0 (and
\* a token it can resolve) ends in an input error and sends nothing to the
\* query service.
C11_EmptyScopeAndBadBudgetRejected ==
    (tool = "audit" /\ error /= AuthRequired
     /\ (scope = <<>> \/ max_projects <= 0))
        => (error \in {InvalidProject, SafetyGuard} /\ netLog = <<>>)

\* The caller holds an outcome that carries records and is tagged incomplete.
CarriesPartialRecords ==
    /\ DOMAIN result /= {}
    /\ "incomplete" \in DOMAIN result
    /\ result["incomplete"] = TRUE

\* C12: when a page fetch of the audit fails after candidates were already
\* collected, the caller receives an outcome that still carries the records
\* produced so far, tagged incomplete.
C12_FailureKeepsPartialRecords ==
    (tool = "audit" /\ error = ServiceError /\ projects_to_check /= <<>>)
        => CarriesPartialRecords

\* The candidate page has arrived and the scan has ended without an error.
CandidateScanFinished ==
    tool = "audit" /\ pc \in {"mark_wait", "done"}
    /\ Sent(CandidateRequest(max_projects).query) >= 1
    /\ ~(pc = "done" /\ error = ServiceError /\ Sent(MarkerRequest(NoneVal).query) = 0)

\* C13: an audit whose candidate page holds no record returns the empty
\* list with the "no active projects" warning and sends no marker request;
\* a marker request is sent only after the candidate request, once the
\* candidate scan has produced at least one candidate.
C13_MarkerScanOnlyWithCandidates ==
    /\ (CandidateScanFinished /\ candServed = <<>>) =>
        /\ pc = "done"
        /\ error = NoError
        /\ result = [disabled_projects |-> <<>>,
                     warning |-> "No active projects found in scope."]
        /\ Sent(MarkerRequest(NoneVal).query) = 0
    /\ \A i \in 1..Len(netLog) :
        (tool = "audit" /\ netLog[i].query = MarkerRequest(NoneVal).query) =>
            /\ i > 1
            /\ netLog[1].query = CandidateRequest(max_projects).query
            /\ candServed /= <<>>
            /\ projects_to_check /= <<>>

C13_Witness ==
    /\ tool = "audit" /\ pc = "done" /\ error = NoError
    /\ candServed = <<>>
    /\ candMore
    /\ result = EmptyAuditResult
    /\ Len(netLog) = 1

====
